---- MODULE Spec2Model ----
(***************************************************************************)
(* Docs/source/conf.py of DaemonEngine: the settings module of the         *)
(* documentation build.  The module is a straight line of top-level        *)
(* assignments of literals.  Executing it binds one name per statement in  *)
(* the module namespace; the resulting namespace is the configuration      *)
(* record that the documentation tool consumes and discards when the       *)
(* build ends.                                                             *)
(*                                                                         *)
(* Python values are tagged records.  A Python string is the sequence of   *)
(* its characters, so that emptiness, prefixes and forbidden characters    *)
(* are properties of the value and not of a name chosen for it.            *)
(***************************************************************************)
EXTENDS Naturals, Sequences, FiniteSets, TLC

VARIABLES pc, ns, phase, lastRead, reads

vars == <<pc, ns, phase, lastRead, reads>>

\* How many settings the documentation tool reads in one build (bound).
MaxReads == 3

----------------------------------------------------------------------------
\* Python literal values

None == [t |-> "none"]

Str(chars) == [t |-> "str", s |-> chars]

Bool(value) == [t |-> "bool", b |-> value]

Int(value) == [t |-> "int", n |-> value]

List(elements) == [t |-> "list", items |-> elements]

Tuple(elements) == [t |-> "tuple", elems |-> elements]

\* one `key: value` entry of a dict display; the key is a string literal
Item(k, v) == [key |-> Str(k), val |-> v]

\* a dict display, entries in source order
Dict(items) == [t |-> "dict", entries |-> items]

\* one assignment statement `target = value`
Stmt(name, v) == [target |-> name, value |-> v]

----------------------------------------------------------------------------
\* The statements of conf.py, each named after its target

\* the project under the name of the older variants of the file
project_Engine ==
    Str(<<"E","n","g","i","n","e">>)

\* conf.py:3
project ==
    Str(<<"D","a","e","m","o","n","E","n","g","i","n","e">>)

\* conf.py:4
copyright ==
    Str(<<"2","0","2","5",","," ","Y","u","-","W","e","i"," ","T","s","e","n","g">>)

\* conf.py:5
author ==
    Str(<<"Y","u","-","W","e","i"," ","T","s","e","n","g">>)

\* conf.py:6
release ==
    Str(<<"1",".","0",".","0">>)

\* extensions with 'breathe' listed a second time
extensions_breathe_twice ==
    List(<<
        Str(<<"s","p","h","i","n","x",".","e","x","t",".","a","u","t","o","d","o","c">>),
        Str(<<"s","p","h","i","n","x",".","e","x","t",".","v","i","e","w","c","o","d","e">>),
        Str(<<"s","p","h","i","n","x",".","e","x","t",".","i","n","t","e","r","s","p","h","i","n","x">>),
        Str(<<"s","p","h","i","n","x",".","e","x","t",".","t","o","d","o">>),
        Str(<<"s","p","h","i","n","x","_","r","t","d","_","t","h","e","m","e">>),
        Str(<<"b","r","e","a","t","h","e">>),
        Str(<<"b","r","e","a","t","h","e">>) >>)

\* extensions without 'sphinx.ext.todo'
extensions_without_todo ==
    List(<<
        Str(<<"s","p","h","i","n","x",".","e","x","t",".","a","u","t","o","d","o","c">>),
        Str(<<"s","p","h","i","n","x",".","e","x","t",".","v","i","e","w","c","o","d","e">>),
        Str(<<"s","p","h","i","n","x",".","e","x","t",".","i","n","t","e","r","s","p","h","i","n","x">>),
        Str(<<"s","p","h","i","n","x","_","r","t","d","_","t","h","e","m","e">>),
        Str(<<"b","r","e","a","t","h","e">>) >>)

\* conf.py:10
extensions ==
    List(<<
        Str(<<"s","p","h","i","n","x",".","e","x","t",".","a","u","t","o","d","o","c">>),
        Str(<<"s","p","h","i","n","x",".","e","x","t",".","v","i","e","w","c","o","d","e">>),
        Str(<<"s","p","h","i","n","x",".","e","x","t",".","i","n","t","e","r","s","p","h","i","n","x">>),
        Str(<<"s","p","h","i","n","x",".","e","x","t",".","t","o","d","o">>),
        Str(<<"s","p","h","i","n","x","_","r","t","d","_","t","h","e","m","e">>),
        Str(<<"b","r","e","a","t","h","e">>) >>)

\* conf.py:19
templates_path ==
    List(<<
        Str(<<"_","t","e","m","p","l","a","t","e","s">>) >>)

\* conf.py:20
exclude_patterns ==
    List(<<>>)

\* conf.py:24
html_theme ==
    Str(<<"s","p","h","i","n","x","_","r","t","d","_","t","h","e","m","e">>)

\* conf.py:25
html_static_path ==
    List(<<
        Str(<<"_","s","t","a","t","i","c">>) >>)

\* html_theme_options with the navigation depth quoted
html_theme_options_depth_quoted ==
    Dict(<<
        Item(<<"l","o","g","o","_","o","n","l","y">>, Bool(FALSE)),
        Item(<<"d","i","s","p","l","a","y","_","v","e","r","s","i","o","n">>, Bool(TRUE)),
        Item(<<"p","r","e","v","_","n","e","x","t","_","b","u","t","t","o","n","s","_","l","o","c","a","t","i","o","n">>, Str(<<"b","o","t","t","o","m">>)),
        Item(<<"s","t","y","l","e","_","e","x","t","e","r","n","a","l","_","l","i","n","k","s">>, Bool(FALSE)),
        Item(<<"s","t","y","l","e","_","n","a","v","_","h","e","a","d","e","r","_","b","a","c","k","g","r","o","u","n","d">>, Str(<<"#","2","c","3","e","5","0">>)),
        Item(<<"c","o","l","l","a","p","s","e","_","n","a","v","i","g","a","t","i","o","n">>, Bool(FALSE)),
        Item(<<"s","t","i","c","k","y","_","n","a","v","i","g","a","t","i","o","n">>, Bool(TRUE)),
        Item(<<"n","a","v","i","g","a","t","i","o","n","_","d","e","p","t","h">>, Str(<<"4">>)),
        Item(<<"i","n","c","l","u","d","e","h","i","d","d","e","n">>, Bool(TRUE)),
        Item(<<"t","i","t","l","e","s","_","o","n","l","y">>, Bool(FALSE)) >>)

\* conf.py:28
html_theme_options ==
    Dict(<<
        Item(<<"l","o","g","o","_","o","n","l","y">>, Bool(FALSE)),
        Item(<<"d","i","s","p","l","a","y","_","v","e","r","s","i","o","n">>, Bool(TRUE)),
        Item(<<"p","r","e","v","_","n","e","x","t","_","b","u","t","t","o","n","s","_","l","o","c","a","t","i","o","n">>, Str(<<"b","o","t","t","o","m">>)),
        Item(<<"s","t","y","l","e","_","e","x","t","e","r","n","a","l","_","l","i","n","k","s">>, Bool(FALSE)),
        Item(<<"s","t","y","l","e","_","n","a","v","_","h","e","a","d","e","r","_","b","a","c","k","g","r","o","u","n","d">>, Str(<<"#","2","c","3","e","5","0">>)),
        Item(<<"c","o","l","l","a","p","s","e","_","n","a","v","i","g","a","t","i","o","n">>, Bool(FALSE)),
        Item(<<"s","t","i","c","k","y","_","n","a","v","i","g","a","t","i","o","n">>, Bool(TRUE)),
        Item(<<"n","a","v","i","g","a","t","i","o","n","_","d","e","p","t","h">>, Int(4)),
        Item(<<"i","n","c","l","u","d","e","h","i","d","d","e","n">>, Bool(TRUE)),
        Item(<<"t","i","t","l","e","s","_","o","n","l","y">>, Bool(FALSE)) >>)

\* html_logo left as the empty string
html_logo_empty ==
    Str(<<>>)

\* conf.py:42
html_logo ==
    Str(<<"_","s","t","a","t","i","c","/","i","m","a","g","e","s","/","d","a","e","m","o","n","-","e","n","g","i","n","e","-","l","o","g","o",".","s","v","g">>)

\* conf.py:43
html_favicon ==
    Str(<<"_","s","t","a","t","i","c","/","i","m","a","g","e","s","/","d","a","e","m","o","n","-","e","n","g","i","n","e","-","i","c","o","n",".","i","c","o">>)

\* conf.py:46
html_css_files ==
    List(<<
        Str(<<"c","s","s","/","c","u","s","t","o","m",".","c","s","s">>) >>)

\* conf.py:50
html_js_files ==
    List(<<
        Str(<<"j","s","/","c","u","s","t","o","m",".","j","s">>) >>)

\* conf.py:55
html_title ==
    Str(<<"D","a","e","m","o","n","E","n","g","i","n","e"," ","D","o","c","u","m","e","n","t","a","t","i","o","n">>)

\* conf.py:56
html_short_title ==
    Str(<<"D","a","e","m","o","n","E","n","g","i","n","e">>)

\* conf.py:57
html_show_sourcelink ==
    Bool(TRUE)

\* conf.py:58
html_show_sphinx ==
    Bool(FALSE)

\* conf.py:59
html_show_copyright ==
    Bool(TRUE)

\* conf.py:62
master_doc ==
    Str(<<"i","n","d","e","x">>)

\* conf.py:66
breathe_projects ==
    Dict(<<
        Item(<<"D","a","e","m","o","n","E","n","g","i","n","e">>, Str(<<".",".","/","d","o","x","y","g","e","n","/","x","m","l">>)) >>)

\* the default project under a name breathe_projects does not have
breathe_default_project_Engine ==
    Str(<<"E","n","g","i","n","e">>)

\* conf.py:69
breathe_default_project ==
    Str(<<"D","a","e","m","o","n","E","n","g","i","n","e">>)

\* conf.py:74
todo_include_todos ==
    Bool(TRUE)

\* intersphinx_mapping in the old format, the value a bare URL
intersphinx_mapping_bare_url ==
    Dict(<<
        Item(<<"p","y","t","h","o","n">>, Str(<<"h","t","t","p","s",":","/","/","d","o","c","s",".","p","y","t","h","o","n",".","o","r","g","/","3","/">>)) >>)

\* conf.py:77
intersphinx_mapping ==
    Dict(<<
        Item(<<"p","y","t","h","o","n">>, Tuple(<<Str(<<"h","t","t","p","s",":","/","/","d","o","c","s",".","p","y","t","h","o","n",".","o","r","g","/","3","/">>), None>>)) >>)

\* conf.py followed by a second assignment to project
Program_project_rebound ==
    << Stmt("project", project),
       Stmt("copyright", copyright),
       Stmt("author", author),
       Stmt("release", release),
       Stmt("extensions", extensions),
       Stmt("templates_path", templates_path),
       Stmt("exclude_patterns", exclude_patterns),
       Stmt("html_theme", html_theme),
       Stmt("html_static_path", html_static_path),
       Stmt("html_theme_options", html_theme_options),
       Stmt("html_logo", html_logo),
       Stmt("html_favicon", html_favicon),
       Stmt("html_css_files", html_css_files),
       Stmt("html_js_files", html_js_files),
       Stmt("html_title", html_title),
       Stmt("html_short_title", html_short_title),
       Stmt("html_show_sourcelink", html_show_sourcelink),
       Stmt("html_show_sphinx", html_show_sphinx),
       Stmt("html_show_copyright", html_show_copyright),
       Stmt("master_doc", master_doc),
       Stmt("breathe_projects", breathe_projects),
       Stmt("breathe_default_project", breathe_default_project),
       Stmt("todo_include_todos", todo_include_todos),
       Stmt("intersphinx_mapping", intersphinx_mapping),
       Stmt("project", Str(<<"E","n","g","i","n","e">>)) >>

\* conf.py:1-79, the statements in source order
Program ==
    << Stmt("project", project),
       Stmt("copyright", copyright),
       Stmt("author", author),
       Stmt("release", release),
       Stmt("extensions", extensions),
       Stmt("templates_path", templates_path),
       Stmt("exclude_patterns", exclude_patterns),
       Stmt("html_theme", html_theme),
       Stmt("html_static_path", html_static_path),
       Stmt("html_theme_options", html_theme_options),
       Stmt("html_logo", html_logo),
       Stmt("html_favicon", html_favicon),
       Stmt("html_css_files", html_css_files),
       Stmt("html_js_files", html_js_files),
       Stmt("html_title", html_title),
       Stmt("html_short_title", html_short_title),
       Stmt("html_show_sourcelink", html_show_sourcelink),
       Stmt("html_show_sphinx", html_show_sphinx),
       Stmt("html_show_copyright", html_show_copyright),
       Stmt("master_doc", master_doc),
       Stmt("breathe_projects", breathe_projects),
       Stmt("breathe_default_project", breathe_default_project),
       Stmt("todo_include_todos", todo_include_todos),
       Stmt("intersphinx_mapping", intersphinx_mapping) >>

----------------------------------------------------------------------------
\* Execution of the module and the life of the record

\* the namespace with no name bound
EmptyNamespace == <<>>

\* nothing read yet
NoRead == [name |-> "", value |-> None]

\* STORE_NAME: binding a name replaces whatever the name was bound to
Bind(env, name, v) == (name :> v) @@ env

Init ==
    /\ pc = 1
    /\ ns = EmptyNamespace
    /\ phase = "loading"
    /\ lastRead = NoRead
    /\ reads = 0

\* the statement at pc is executed: its target is bound to its value
Assign ==
    /\ phase = "loading"
    /\ pc <= Len(Program)
    /\ ns' = Bind(ns, Program[pc].target, Program[pc].value)
    /\ pc' = pc + 1
    /\ UNCHANGED <<phase, lastRead, reads>>

\* the end of the module is reached: the namespace is the record
FinishLoad ==
    /\ phase = "loading"
    /\ pc = Len(Program) + 1
    /\ phase' = "building"
    /\ UNCHANGED <<pc, ns, lastRead, reads>>

\* the documentation tool reads one setting of the record
Read(k) ==
    /\ phase = "building"
    /\ reads < MaxReads
    /\ k \in DOMAIN ns
    /\ lastRead' = [name |-> k, value |-> ns[k]]
    /\ reads' = reads + 1
    /\ UNCHANGED <<pc, ns, phase>>

\* the build process ends and the record is discarded
EndBuild ==
    /\ phase = "building"
    /\ phase' = "ended"
    /\ ns' = EmptyNamespace
    /\ UNCHANGED <<pc, lastRead, reads>>

Next ==
    \/ Assign
    \/ FinishLoad
    \/ \E k \in DOMAIN ns : Read(k)
    \/ EndBuild

Spec == Init /\ [][Next]_vars

----------------------------------------------------------------------------
\* Reading the record

Bound(k) == k \in DOMAIN ns

IsStr(v) == v.t = "str"

IsBool(v) == v.t = "bool"

IsInt(v) == v.t = "int"

IsNone(v) == v.t = "none"

NonEmptyStr(v) == IsStr(v) /\ Len(v.s) > 0

IsStrList(v) == v.t = "list" /\ \A i \in 1..Len(v.items) : IsStr(v.items[i])

HasKey(d, k) == \E i \in 1..Len(d.entries) : d.entries[i].key = Str(k)

\* d[k]: the last entry with that key wins in a dict display
Lookup(d, k) ==
    LET last == CHOOSE i \in 1..Len(d.entries) :
                    /\ d.entries[i].key = Str(k)
                    /\ \A j \in (i+1)..Len(d.entries) : d.entries[j].key # Str(k)
    IN  d.entries[last].val

\* `name in extensions`
HasExtension(name) ==
    /\ Bound("extensions")
    /\ \E i \in 1..Len(ns["extensions"].items) : ns["extensions"].items[i] = Str(name)

----------------------------------------------------------------------------
\* Vocabulary of the properties

\* the record is loaded and the documentation tool has read setting k
LoadedAndRead(k) ==
    /\ phase = "building"
    /\ lastRead.name = k
    /\ Bound(k)
    /\ lastRead.value = ns[k]

\* s starts with the characters of prefix and goes on after them
StartsWith(s, prefix) ==
    /\ Len(s) > Len(prefix)
    /\ \A i \in 1..Len(prefix) : s[i] = prefix[i]

\* an absolute http or https URL
IsURL(v) ==
    /\ IsStr(v)
    /\ \/ StartsWith(v.s, <<"h","t","t","p",":","/","/">>)
       \/ StartsWith(v.s, <<"h","t","t","p","s",":","/","/">>)

\* characters no file name may contain on the file systems the
\* documentation is built on (NTFS, and with it the POSIX ones)
InvalidPathChars == {"<", ">", ":", "\"", "|", "?", "*"}

\* a non-empty path of "/"-separated, non-empty components, none of which
\* contains a character the file system rejects
ValidPath(v) ==
    /\ NonEmptyStr(v)
    /\ \A i \in 1..Len(v.s) : v.s[i] \notin InvalidPathChars
    /\ \A i \in 1..(Len(v.s) - 1) : ~(v.s[i] = "/" /\ v.s[i+1] = "/")

ValidPathList(v) ==
    /\ v.t = "list"
    /\ \A i \in 1..Len(v.items) : ValidPath(v.items[i])

\* the value of html_theme_options[k] satisfies Type
OptionHasType(k, Type(_)) ==
    /\ HasKey(ns["html_theme_options"], k)
    /\ Type(Lookup(ns["html_theme_options"], k))

----------------------------------------------------------------------------
\* C1: no identifier occurs at two distinct positions of `extensions`.
NoDuplicateExtensions ==
    Bound("extensions") =>
        \A i, j \in 1..Len(ns["extensions"].items) :
            i # j => ns["extensions"].items[i] # ns["extensions"].items[j]

\* the tool has read an extension list of more than one identifier
NoDuplicateExtensionsWitness ==
    /\ LoadedAndRead("extensions")
    /\ Len(lastRead.value.items) > 1

CrossReferenceEntriesWellFormed ==
    Bound("intersphinx_mapping") =>
        /\ ns["intersphinx_mapping"].t = "dict"
        /\ \A i \in 1..Len(ns["intersphinx_mapping"].entries) :
              LET e == ns["intersphinx_mapping"].entries[i] IN
              /\ NonEmptyStr(e.key)
              /\ \/ IsNone(e.val)
                 \/ /\ e.val.t = "tuple"
                    /\ Len(e.val.elems) = 2
                    /\ IsNone(e.val.elems[1]) \/ IsURL(e.val.elems[1])
                    /\ IsNone(e.val.elems[2]) \/ NonEmptyStr(e.val.elems[2])

\* the tool has read a cross-reference mapping that has an entry
CrossReferenceEntriesWitness ==
    /\ LoadedAndRead("intersphinx_mapping")
    /\ Len(lastRead.value.entries) > 0

\* C5: every declared static-asset path is a non-empty string that is valid
\* for the file system: the elements of html_static_path, templates_path,
\* html_css_files and html_js_files, and html_logo and html_favicon when set.
StaticAssetPathsValid ==
    /\ \A k \in {"html_static_path", "templates_path", "html_css_files", "html_js_files"} :
          Bound(k) => ValidPathList(ns[k])
    /\ \A k \in {"html_logo", "html_favicon"} :
          Bound(k) => ValidPath(ns[k])

\* all six path settings are loaded, the lists are not empty, and the tool
\* has read the logo
StaticAssetPathsWitness ==
    /\ LoadedAndRead("html_logo")
    /\ Bound("html_favicon")
    /\ \A k \in {"html_static_path", "templates_path", "html_css_files", "html_js_files"} :
          Bound(k) /\ Len(ns[k].items) > 0

\* C7: every field has its declared type: in html_theme_options the
\* navigation depth is an integer, collapse navigation, sticky navigation,
\* show-version and title-only mode are booleans and the header background
\* colour is a string; the three html_show_* flags and todo_include_todos
\* are booleans; extensions is a sequence of strings; master_doc,
\* html_theme, html_title and html_short_title are strings.
FieldTypesAsDeclared ==
    /\ Bound("html_theme_options") =>
          /\ ns["html_theme_options"].t = "dict"
          /\ OptionHasType(<<"n","a","v","i","g","a","t","i","o","n","_","d","e","p","t","h">>, IsInt)
          /\ OptionHasType(<<"c","o","l","l","a","p","s","e","_","n","a","v","i","g","a","t","i","o","n">>, IsBool)
          /\ OptionHasType(<<"s","t","i","c","k","y","_","n","a","v","i","g","a","t","i","o","n">>, IsBool)
          /\ OptionHasType(<<"d","i","s","p","l","a","y","_","v","e","r","s","i","o","n">>, IsBool)
          /\ OptionHasType(<<"t","i","t","l","e","s","_","o","n","l","y">>, IsBool)
          /\ OptionHasType(<<"s","t","y","l","e","_","n","a","v","_","h","e","a","d","e","r","_","b","a","c","k","g","r","o","u","n","d">>, IsStr)
    /\ \A k \in {"html_show_sourcelink", "html_show_sphinx",
                 "html_show_copyright", "todo_include_todos"} :
          Bound(k) => IsBool(ns[k])
    /\ Bound("extensions") => IsStrList(ns["extensions"])
    /\ \A k \in {"master_doc", "html_theme", "html_title", "html_short_title"} :
          Bound(k) => IsStr(ns[k])

\* every typed field is loaded and the tool has read the theme options
FieldTypesWitness ==
    /\ LoadedAndRead("html_theme_options")
    /\ \A k \in {"html_show_sourcelink", "html_show_sphinx", "html_show_copyright",
                 "todo_include_todos", "extensions", "master_doc", "html_theme",
                 "html_title", "html_short_title"} : Bound(k)

\* C8: breathe_default_project is a key of breathe_projects, and the
\* directory mapped to it is a non-empty string.
DefaultProjectIsBridgeProject ==
    Bound("breathe_default_project") =>
        /\ IsStr(ns["breathe_default_project"])
        /\ Bound("breathe_projects")
        /\ HasKey(ns["breathe_projects"], ns["breathe_default_project"].s)
        /\ NonEmptyStr(Lookup(ns["breathe_projects"], ns["breathe_default_project"].s))

\* the tool has read the default project of a loaded bridge mapping
DefaultProjectWitness ==
    /\ LoadedAndRead("breathe_default_project")
    /\ Bound("breathe_projects")

\* C9: a plugin's setting is set only if the plugin is in extensions:
\* intersphinx_mapping needs 'sphinx.ext.intersphinx', todo_include_todos
\* 'sphinx.ext.todo', breathe_projects and breathe_default_project
\* 'breathe'; and html_theme is 'sphinx_rtd_theme', itself in extensions.
PluginSettingsBacked ==
    /\ Bound("intersphinx_mapping") => HasExtension(<<"s","p","h","i","n","x",".","e","x","t",".","i","n","t","e","r","s","p","h","i","n","x">>)
    /\ Bound("todo_include_todos") => HasExtension(<<"s","p","h","i","n","x",".","e","x","t",".","t","o","d","o">>)
    /\ Bound("breathe_projects") => HasExtension(<<"b","r","e","a","t","h","e">>)
    /\ Bound("breathe_default_project") => HasExtension(<<"b","r","e","a","t","h","e">>)
    /\ Bound("html_theme") =>
          /\ ns["html_theme"] = Str(<<"s","p","h","i","n","x","_","r","t","d","_","t","h","e","m","e">>)
          /\ HasExtension(ns["html_theme"].s)

\* all four plugin settings and the theme are loaded and the tool has read
\* the todo switch
PluginSettingsWitness ==
    /\ LoadedAndRead("todo_include_todos")
    /\ \A k \in {"intersphinx_mapping", "breathe_projects",
                 "breathe_default_project", "html_theme"} : Bound(k)

====
